---- MODULE Spec2Model ----
(***************************************************************************)
(* Model of cyclic_actions.py: enumeration of the actions of a cyclic      *)
(* group Z_r on a curve of genus g with a prescribed branching pattern.    *)
(*                                                                         *)
(* The source is Python 2: "/" on integers is floor division (\div here),  *)
(* xrange(a, b, -1) counts down from a to b + 1.  Python lists are         *)
(* 0-based, TLA+ sequences 1-based: list[i] is seq[i + 1].                 *)
(***************************************************************************)
EXTENDS Integers, Sequences, FiniteSets, TLC

(* Bounds of the checked instances. *)
MaxGenus == 2         \* main: genus <= MaxGenus
MaxBranchLen == 2     \* main: len(branch) <= MaxBranchLen
MaxBranchCount == 2   \* main: branch[i] <= MaxBranchCount
MaxDiscLen == 3       \* all_discrepancies: len(discrepancies) <= MaxDiscLen
MaxDisc == 5          \* all_discrepancies: discrepancies[j] <= MaxDisc
MaxQ == 6             \* all_discrepancies: Q <= MaxQ
MaxR == 6             \* ac_check: r <= MaxR
MaxBr == 1            \* ac_check: br[i] <= MaxBr
MaxRet == 2           \* ac_check: ret[j] <= MaxRet

VARIABLES
    entry,        \* the function the behaviour starts in
    pc,           \* position in the code
    genus,        \* args.genus
    branch,       \* args.branch / branch / br
    latex,        \* args.latex
    out,          \* what the process has printed or raised, in order
    lcm_, N, c, cp, upper_limit,   \* run: locals computed before the loop
    r, h, h_num, h_den, disc, Q,   \* run: loop variables and per-r locals
    rets, k, ret,                  \* run: "for ret in rets", k = index of ret
    results,                       \* run: the dictionary being built
    a,            \* ac_check: the sorted list handed to _ac_check
    ok,           \* the value ac_check returned
    stack,        \* the frames of the recursion in progress, innermost last
    returned      \* <<v>> when a call has just returned v to the top frame

vars == <<entry, pc, genus, branch, latex, out, lcm_, N, c, cp, upper_limit,
          r, h, h_num, h_den, disc, Q, rets, k, ret, results,
          a, ok, stack, returned>>

argVars == <<entry, genus, branch, latex>>
runLocals == <<lcm_, N, c, cp, upper_limit, h_num, h_den>>
callVars == <<a, stack, returned>>

----------------------------------------------------------------------------
(* UTILITY FUNCTIONS *)

RECURSIVE gcd(_, _)
gcd(x, y) == IF y = 0 THEN x ELSE gcd(y, x % y)

lcm(x, y) == (x * y) \div gcd(x, y)

Max(x, y) == IF x >= y THEN x ELSE y
Min(x, y) == IF x <= y THEN x ELSE y

(* The element of a singleton: Once({F(x) : x \in {e}}) is F(e) with e       *)
(* evaluated once and bound to x, as an assignment x = e of the code does. *)
Once(S) == CHOOSE x \in S : TRUE

(* [v] * n *)
Repeat(v, n) == [j \in 1..n |-> v]

----------------------------------------------------------------------------
(* MAIN FUNCTIONS *)

RECURSIVE discrepanciesFrom(_, _)
discrepanciesFrom(rr, i) ==
    IF i > rr THEN <<>>
    ELSE (IF rr % i = 0 THEN << ((i - 1) * rr) \div i >> ELSE <<>>)
         \o discrepanciesFrom(rr, i + 1)

discrepancies(rr) == discrepanciesFrom(rr, 2)

(* [[i] + x for x in sub] *)
PrependAll(i, sub) == Once({[j \in 1..Len(x) |-> <<i>> \o x[j]] : x \in {sub}})

RECURSIVE all_discrepancies(_, _, _), all_discrepancies_loop(_, _, _, _)
all_discrepancies(d, q, start) ==
    LET elements_to_use == Len(d) - start IN
    IF q = 0 THEN << Repeat(0, elements_to_use) >>
    ELSE IF elements_to_use <= 0 THEN <<>>
    ELSE all_discrepancies_loop(d, q, start, q \div d[start + 1])

all_discrepancies_loop(d, q, start, i) ==
    IF i < 0 THEN <<>>
    ELSE PrependAll(i, all_discrepancies(d, q - i * d[start + 1], start + 1))
         \o all_discrepancies_loop(d, q, start, i - 1)

RECURSIVE _ac_check(_, _, _, _), _ac_check_loop(_, _, _, _, _)
_ac_check(rr, aa, start, total) ==
    IF start >= Len(aa) THEN total % rr = 0
    ELSE IF start = 0 THEN _ac_check(rr, aa, 1, rr \div aa[1])
    ELSE _ac_check_loop(rr, aa, start, total, 1)

_ac_check_loop(rr, aa, start, total, i) ==
    IF i >= aa[start + 1] THEN FALSE
    ELSE IF gcd(i, aa[start + 1]) = 1
            /\ _ac_check(rr, aa, start + 1, total + (i * rr) \div aa[start + 1])
         THEN TRUE
         ELSE _ac_check_loop(rr, aa, start, total, i + 1)

(* sorted(a, reverse=True) *)
RECURSIVE InsertDesc(_, _)
InsertDesc(v, s) ==
    IF s = <<>> THEN <<v>>
    ELSE IF v >= Head(s) THEN <<v>> \o s
    ELSE <<Head(s)>> \o InsertDesc(v, Tail(s))

RECURSIVE SortedDesc(_)
SortedDesc(s) ==
    IF s = <<>> THEN <<>>
    ELSE Once({InsertDesc(Head(s), t) : t \in {SortedDesc(Tail(s))}})

(* first loop of ac_check: the prescribed branch points *)
RECURSIVE ac_a_br(_, _, _)
ac_a_br(rr, br, idx_x) ==
    IF idx_x >= Len(br) THEN <<>>
    ELSE (IF rr # idx_x + 1
          THEN Repeat(rr \div (idx_x + 1), br[idx_x + 1])
          ELSE <<>>)
         \o ac_a_br(rr, br, idx_x + 1)

(* variant: an entry whose stabilizer index equals r is dropped *)
ac_ret_kept_unless_r(rr, d, idx_x) == rr # rr \div (rr - d[idx_x + 1])
(* whether the second loop of ac_check keeps the entry at idx_x *)
ac_ret_kept(rr, d, idx_x) == rr # idx_x + 1

(* second loop of ac_check: the additional branch points *)
RECURSIVE ac_a_ret(_, _, _, _)
ac_a_ret(rr, d, rt, idx_x) ==
    IF idx_x >= Len(rt) THEN <<>>
    ELSE (IF ac_ret_kept(rr, d, idx_x)
          THEN Repeat(rr \div (rr - d[idx_x + 1]), rt[idx_x + 1])
          ELSE <<>>)
         \o ac_a_ret(rr, d, rt, idx_x + 1)

(* the list a of ac_check, before sorting *)
ac_a(rr, br, d, rt) == ac_a_br(rr, br, 0) \o ac_a_ret(rr, d, rt, 0)

(* lines 230-237 *)
ac_check(rr, br, d, rt) ==
    Once({_ac_check(rr, aa, 0, 0) : aa \in {SortedDesc(ac_a(rr, br, d, rt))}})

----------------------------------------------------------------------------
(* run: the locals computed from branch before the loop over r *)

(* lcm_, N and c after the first n entries of branch (lines 253-257) *)
RECURSIVE run_lcm(_, _), run_N(_, _), run_c(_, _)
run_lcm(br, n) ==
    IF n = 0 THEN 1
    ELSE IF br[n] # 0 THEN Once({lcm(l, n) : l \in {run_lcm(br, n - 1)}})
    ELSE run_lcm(br, n - 1)
run_N(br, n) ==
    IF n = 0 THEN 0
    ELSE IF br[n] # 0 THEN run_N(br, n - 1) + br[n] ELSE run_N(br, n - 1)
run_c(br, n) ==
    IF n = 0 THEN 0
    ELSE IF br[n] # 0 THEN run_c(br, n - 1) + n * br[n] ELSE run_c(br, n - 1)

run_cp(gg, cc) == 2 * gg - 2 + cc

wiman(gg) == 2 * (2 * gg + 1)

(* lines 260-265 *)
run_upper_limit(gg, n, cpp) ==
    IF 2 - n < 0 THEN Min(wiman(gg), cpp \div (n - 2))
    ELSE IF 2 - n = 0 THEN Min(wiman(gg), 2 * cpp)
    ELSE wiman(gg)

(* line 268: first value and step of the range; lines 269-270, 275 *)
(* variant: the range starts at lcm_ *)
run_r_first_lcm(l) == l
run_r_first(l) == Max(l, 2)
run_r_next(rr, l) == rr + l
(* variant: the denominator is r *)
run_h_den_r(rr) == rr
run_h_den(rr) == 2 * rr
(* variant: the prescribed branch points are not counted *)
run_h_num_without_N(n, rr, cpp) == 2 * rr + cpp
run_h_num(n, rr, cpp) == (2 - n) * rr + cpp
run_h_first(hn, hd) == hn \div hd
run_h_next(hh) == hh - 1
run_Q(hn, hd, hh) == hn - hd * hh

(* results[r][h][1].append(ret), creating results[r] and results[r][h] *)
EmptyDict == [x \in {} |-> 0]
Record(res, rr, hh, d, rt) ==
    LET res1 == IF rr \in DOMAIN res THEN res ELSE (rr :> EmptyDict) @@ res
        byh  == res1[rr]
        byh1 == IF hh \in DOMAIN byh THEN byh ELSE (hh :> <<d, <<>>>>) @@ byh
        cell == byh1[hh]
    IN [res1 EXCEPT ![rr] = [byh1 EXCEPT ![hh] = <<cell[1], Append(cell[2], rt)>>]]

----------------------------------------------------------------------------
(* The inputs. *)

Branches == UNION {[1..n -> -1..MaxBranchCount] : n \in 0..MaxBranchLen}
Discs == UNION {[1..n -> 1..MaxDisc] : n \in 0..MaxDiscLen}

(* what run hands to ac_check: every index with points divides r *)
BrOf(rr) ==
    {br \in UNION {[1..n -> 0..MaxBr] : n \in 0..MaxBranchLen} :
        \A i \in 1..Len(br) : br[i] # 0 => rr % i = 0}

Unset ==
    /\ out = <<>>
    /\ lcm_ = 0 /\ N = 0 /\ c = 0 /\ cp = 0 /\ upper_limit = 0
    /\ h = 0 /\ h_num = 0 /\ h_den = 0
    /\ rets = <<>> /\ k = 0
    /\ results = EmptyDict
    /\ a = <<>> /\ ok = FALSE /\ stack = <<>> /\ returned = <<>>

(* the program is started: main() *)
InitMain ==
    /\ entry = "main" /\ pc = "main"
    /\ genus \in -1..MaxGenus
    /\ branch \in Branches
    /\ latex \in BOOLEAN
    /\ r = 0 /\ disc = <<>> /\ Q = 0 /\ ret = <<>>
    /\ Unset

(* all_discrepancies(disc, Q) is called *)
InitAllDiscrepancies ==
    /\ entry = "all_discrepancies" /\ pc = "all_discrepancies"
    /\ disc \in Discs
    /\ Q \in 0..MaxQ
    /\ genus = 0 /\ branch = <<>> /\ latex = FALSE /\ r = 0 /\ ret = <<>>
    /\ Unset

(* ac_check(r, branch, discrepancies(r), ret) is called *)
InitAcCheck ==
    /\ entry = "ac_check" /\ pc = "ac_check"
    /\ r \in 2..MaxR
    /\ branch \in BrOf(r)
    /\ disc = discrepancies(r)
    /\ ret \in [1..Len(disc) -> 0..MaxRet]
    /\ genus = 0 /\ latex = FALSE /\ Q = 0
    /\ Unset

Init == InitMain \/ InitAllDiscrepancies \/ InitAcCheck

----------------------------------------------------------------------------
(* main and run *)

(* ArgumentParser(description=...) of lines 294-295: the attribute usage *)
parser_usage == "None"

(* main, lines 304-307: the validation.  parser.usage is an attribute,  *)
(* not a method: calling None raises TypeError, which ends the process. *)
MainParse ==
    /\ pc = "main"
    /\ IF genus < 0 \/ \E i \in 1..Len(branch) : branch[i] < 0
       THEN /\ out' = Append(out, IF parser_usage = "None"
                                  THEN "TypeError" ELSE "usage")
            /\ pc' = "done"
       ELSE /\ out' = out
            /\ pc' = "run"
    /\ UNCHANGED <<argVars, runLocals, callVars,
                   r, h, disc, Q, rets, k, ret, results, ok>>

(* run, lines 249-267, and the first value of the range of line 268 *)
RunStart ==
    /\ pc = "run"
    /\ lcm_' = run_lcm(branch, Len(branch))
    /\ N' = run_N(branch, Len(branch))
    /\ c' = run_c(branch, Len(branch))
    /\ cp' = run_cp(genus, c')
    /\ upper_limit' = run_upper_limit(genus, N', cp')
    /\ results' = EmptyDict
    /\ r' = run_r_first(lcm_')
    /\ pc' = "r_loop"
    /\ UNCHANGED <<argVars, callVars, out,
                   h, h_num, h_den, disc, Q, rets, k, ret, ok>>

(* line 268: the test of the range; lines 269-274 for r; line 286 *)
RLoop ==
    /\ pc = "r_loop"
    /\ IF r < upper_limit + 1
       THEN /\ h_den' = run_h_den(r)
            /\ h_num' = run_h_num(N, r, cp)
            /\ disc' = discrepancies(r)
            /\ h' = run_h_first(h_num', h_den')
            /\ pc' = "h_loop"
       ELSE /\ pc' = "print"
            /\ UNCHANGED <<h_den, h_num, disc, h>>
    /\ UNCHANGED <<argVars, callVars, out, lcm_, N, c, cp,
                   upper_limit, r, Q, rets, k, ret, results, ok>>

(* line 274: the test of the xrange; lines 275-277; the step of line 268 *)
HLoop ==
    /\ pc = "h_loop"
    /\ IF h > -1
       THEN /\ Q' = run_Q(h_num, h_den, h)
            /\ rets' = all_discrepancies(disc, Q', 0)
            /\ k' = 0
            /\ pc' = "ret_loop"
            /\ r' = r
       ELSE /\ r' = run_r_next(r, lcm_)
            /\ pc' = "r_loop"
            /\ UNCHANGED <<Q, rets, k>>
    /\ UNCHANGED <<argVars, callVars, runLocals, out,
                   h, disc, ret, results, ok>>

(* lines 277-284 for one ret; the step of line 274 *)
RetLoop ==
    /\ pc = "ret_loop"
    /\ IF k < Len(rets)
       THEN /\ ret' = rets[k + 1]
            /\ ok' = ac_check(r, branch, disc, ret')
            /\ results' = IF ok' THEN Record(results, r, h, disc, ret')
                                 ELSE results
            /\ k' = k + 1
            /\ UNCHANGED <<h, pc>>
       ELSE /\ h' = run_h_next(h)
            /\ pc' = "h_loop"
            /\ UNCHANGED <<ret, results, k, ok>>
    /\ UNCHANGED <<argVars, callVars, runLocals, out, r, disc, Q, rets>>

(* main, lines 308-312: run has returned, the report is printed *)
MainPrint ==
    /\ pc = "print"
    /\ out' = Append(out, IF latex THEN "to_latex" ELSE "to_text")
    /\ pc' = "done"
    /\ UNCHANGED <<argVars, runLocals, callVars,
                   r, h, disc, Q, rets, k, ret, results, ok>>

----------------------------------------------------------------------------
(* The recursion of all_discrepancies, one step at a time.  A frame holds *)
(* the arguments start and Q of its call, its loop variable i, its list   *)
(* ret and where it is: "enter" (line 173) or "loop" (line 180).          *)

Top == stack[Len(stack)]
Pop == SubSeq(stack, 1, Len(stack) - 1)
SetTop(f) == [stack EXCEPT ![Len(stack)] = f]

ad_frame(start, q) == [start |-> start, Q |-> q, i |-> 0, ret |-> <<>>, at |-> "enter"]

(* line 181: the arguments of the recursive call made by frame f *)
ad_child(f) == ad_frame(f.start + 1, f.Q - f.i * disc[f.start + 1])

(* variant: the new combinations are put in front of ret *)
ad_resume_in_front(f, sub) == [f EXCEPT !.ret = PrependAll(f.i, sub) \o f.ret, !.i = f.i - 1]
(* lines 182-183 and the step of line 180, when the call returned sub *)
ad_resume(f, sub) == [f EXCEPT !.ret = f.ret \o PrependAll(f.i, sub), !.i = f.i - 1]

(* the call all_discrepancies(disc, Q) of line 276 *)
AdEntry ==
    /\ pc = "all_discrepancies"
    /\ stack' = <<ad_frame(0, Q)>>
    /\ returned' = <<>>
    /\ pc' = "all_discrepancies_body"
    /\ UNCHANGED <<argVars, runLocals, out, r, h, disc, Q, rets, k, ret,
                   results, a, ok>>

(* lines 173-179 *)
AdCall ==
    /\ pc = "all_discrepancies_body"
    /\ stack # <<>> /\ Top.at = "enter"
    /\ LET elements_to_use == Len(disc) - Top.start IN
       IF Top.Q = 0
       THEN stack' = Pop /\ returned' = << <<Repeat(0, elements_to_use)>> >>
       ELSE IF elements_to_use <= 0
       THEN stack' = Pop /\ returned' = << <<>> >>
       ELSE /\ stack' = SetTop([Top EXCEPT !.at = "loop",
                                           !.i = Top.Q \div disc[Top.start + 1]])
            /\ returned' = returned
    /\ UNCHANGED <<argVars, runLocals, out, pc, r, h, disc, Q, rets, k, ret,
                   results, a, ok>>

(* line 180: the test of the xrange; line 181: the call; line 184 *)
AdLoop ==
    /\ pc = "all_discrepancies_body"
    /\ stack # <<>> /\ Top.at = "loop" /\ returned = <<>>
    /\ IF Top.i > -1
       THEN stack' = Append(stack, ad_child(Top)) /\ returned' = returned
       ELSE stack' = Pop /\ returned' = <<Top.ret>>
    /\ UNCHANGED <<argVars, runLocals, out, pc, r, h, disc, Q, rets, k, ret,
                   results, a, ok>>

(* lines 181-183: the recursive call has returned *)
AdReturn ==
    /\ pc = "all_discrepancies_body"
    /\ stack # <<>> /\ Top.at = "loop" /\ returned # <<>>
    /\ stack' = SetTop(ad_resume(Top, returned[1]))
    /\ returned' = <<>>
    /\ UNCHANGED <<argVars, runLocals, out, pc, r, h, disc, Q, rets, k, ret,
                   results, a, ok>>

(* the outermost call has returned: rets = all_discrepancies(disc, Q) *)
AdExit ==
    /\ pc = "all_discrepancies_body"
    /\ stack = <<>> /\ returned # <<>>
    /\ rets' = returned[1]
    /\ returned' = <<>>
    /\ pc' = "done"
    /\ UNCHANGED <<argVars, runLocals, out, r, h, disc, Q, k, ret,
                   results, a, ok, stack>>

----------------------------------------------------------------------------
(* ac_check and the recursion of _ac_check, one step at a time.  A frame  *)
(* holds the arguments start and total of its call, its loop variable i   *)
(* and where it is: "enter" (line 200), "tail" (line 203: it returns what *)
(* its call returns) or "loop" (line 205).                                *)

ac_frame(start, total) == [start |-> start, total |-> total, i |-> 0, at |-> "enter"]

(* variant: the first entry contributes nothing to total *)
ac_first_dropped(f) == ac_frame(1, 0)
(* line 203: the call made for start == 0 *)
ac_first(f) == ac_frame(1, r \div a[1])

(* variant: every exponent is tried, coprime or not *)
ac_tried_always(f) == TRUE
(* line 206: whether the exponent i of frame f is tried *)
ac_tried(f) == gcd(f.i, a[f.start + 1]) = 1

(* line 207: the arguments of the recursive call made by frame f *)
ac_child(f) == ac_frame(f.start + 1, f.total + (f.i * r) \div a[f.start + 1])

(* variant: the loop variable is not advanced *)
ac_next_stuck(f) == f
(* line 205: the step of the xrange *)
ac_next(f) == [f EXCEPT !.i = f.i + 1]

(* lines 230-237: a is built and sorted, _ac_check(r, a) is called *)
AcEntry ==
    /\ pc = "ac_check"
    /\ a' = SortedDesc(ac_a(r, branch, disc, ret))
    /\ stack' = <<ac_frame(0, 0)>>
    /\ returned' = <<>>
    /\ pc' = "_ac_check"
    /\ UNCHANGED <<argVars, runLocals, out, r, h, disc, Q, rets, k, ret,
                   results, ok>>

(* lines 200-205 *)
AcCall ==
    /\ pc = "_ac_check"
    /\ stack # <<>> /\ Top.at = "enter"
    /\ IF Top.start >= Len(a)
       THEN stack' = Pop /\ returned' = <<Top.total % r = 0>>
       ELSE IF Top.start = 0
       THEN /\ stack' = Append(SetTop([Top EXCEPT !.at = "tail"]), ac_first(Top))
            /\ returned' = returned
       ELSE /\ stack' = SetTop([Top EXCEPT !.at = "loop", !.i = 1])
            /\ returned' = returned
    /\ UNCHANGED <<argVars, runLocals, out, pc, r, h, disc, Q, rets, k, ret,
                   results, a, ok>>

(* line 205: the test of the xrange; lines 206-207; line 210 *)
AcLoop ==
    /\ pc = "_ac_check"
    /\ stack # <<>> /\ Top.at = "loop" /\ returned = <<>>
    /\ IF Top.i < a[Top.start + 1]
       THEN /\ stack' = IF ac_tried(Top)
                        THEN Append(stack, ac_child(Top))
                        ELSE SetTop(ac_next(Top))
            /\ returned' = returned
       ELSE stack' = Pop /\ returned' = <<FALSE>>
    /\ UNCHANGED <<argVars, runLocals, out, pc, r, h, disc, Q, rets, k, ret,
                   results, a, ok>>

(* lines 203 and 207-209: a recursive call has returned *)
AcReturn ==
    /\ pc = "_ac_check"
    /\ stack # <<>> /\ Top.at # "enter" /\ returned # <<>>
    /\ IF Top.at = "tail" \/ returned[1]
       THEN stack' = Pop /\ returned' = returned
       ELSE stack' = SetTop(ac_next(Top)) /\ returned' = <<>>
    /\ UNCHANGED <<argVars, runLocals, out, pc, r, h, disc, Q, rets, k, ret,
                   results, a, ok>>

(* line 237: ac_check returns what _ac_check returned *)
AcExit ==
    /\ pc = "_ac_check"
    /\ stack = <<>> /\ returned # <<>>
    /\ ok' = returned[1]
    /\ returned' = <<>>
    /\ pc' = "done"
    /\ UNCHANGED <<argVars, runLocals, out, r, h, disc, Q, rets, k, ret,
                   results, a, stack>>

Next ==
    \/ MainParse
    \/ RunStart
    \/ RLoop
    \/ HLoop
    \/ RetLoop
    \/ MainPrint
    \/ AdEntry
    \/ AdCall
    \/ AdLoop
    \/ AdReturn
    \/ AdExit
    \/ AcEntry
    \/ AcCall
    \/ AcLoop
    \/ AcReturn
    \/ AcExit

Spec == Init /\ [][Next]_vars

(* The interpreter runs the single thread until it returns. *)
FairSpec == Spec /\ WF_vars(Next)

(* the step-by-step recursions compute what the functions compute *)
StepwiseAgrees ==
    pc = "done" =>
        /\ entry = "all_discrepancies" => rets = all_discrepancies(disc, Q, 0)
        /\ entry = "ac_check" => ok = ac_check(r, branch, disc, ret)

----------------------------------------------------------------------------
(* Vocabulary of the properties. *)

RECURSIVE DotUpTo(_, _, _)
DotUpTo(x, y, n) == IF n = 0 THEN 0 ELSE DotUpTo(x, y, n - 1) + x[n] * y[n]
(* sum over j of x[j] * y[j] *)
Dot(x, y) == DotUpTo(x, y, Len(x))

(* run has returned its results to main *)
RunReturned == entry = "main" /\ pc \in {"print", "done"} /\ lcm_ > 0

(* the triples (r, h, combination) recorded in results *)
Recorded ==
    UNION { UNION { { <<rr, hh, results[rr][hh][2][j]>> :
                        j \in 1..Len(results[rr][hh][2]) } :
                    hh \in DOMAIN results[rr] } :
            rr \in DOMAIN results }

(* the discrepancy list stored for (r, h) *)
StoredDisc(rr, hh) == results[rr][hh][1]

SeqRange(s) == {s[j] : j \in 1..Len(s)}

(* C1 as amended: for run(2, []), every recorded triple (r, h, combination), *)
(* with disc the list stored for (r, h), satisfies                           *)
(* 2*g - 2 == r*(2*h - 2) + sum over j of disc[j] * combination[j].          *)
C1_RiemannHurwitzGenus2 ==
    (RunReturned /\ genus = 2 /\ branch = <<>>) =>
        \A t \in Recorded :
            2 * genus - 2 = t[1] * (2 * t[2] - 2) + Dot(StoredDisc(t[1], t[2]), t[3])

(* C1 as stated: the same with (r - disc[j]) * combination[j] as the summand. *)
C1_AsStated ==
    (RunReturned /\ genus = 2 /\ branch = <<>>) =>
        \A t \in Recorded :
            2 * genus - 2 = t[1] * (2 * t[2] - 2)
                + Dot([j \in 1..Len(t[3]) |-> t[1] - StoredDisc(t[1], t[2])[j]], t[3])

(* run(2, []) has returned and recorded a combination for r = 5 *)
C1_Witness ==
    /\ RunReturned /\ genus = 2 /\ branch = <<>>
    /\ \E t \in Recorded : t[1] = 5

(* C9: every combination ret recorded under results[r][h] satisfies          *)
(* 2*g - 2 == r*(2*h - 2) + sum_i branch[i]*(r - (i+1)) + sum_j ret[j]*disc[j] *)
(* where disc == discrepancies(r) is the list stored for (r, h),             *)
(* len(ret) == len(disc) and 0 <= h <= g.                                    *)
C9_RiemannHurwitzWithBranch ==
    RunReturned =>
        \A t \in Recorded :
            LET rr == t[1]  hh == t[2]  rt == t[3]  d == StoredDisc(rr, hh) IN
            /\ d = discrepancies(rr)
            /\ Len(rt) = Len(d)
            /\ 0 <= hh /\ hh <= genus
            /\ 2 * genus - 2 = rr * (2 * hh - 2)
                   + Dot(branch, [i \in 1..Len(branch) |-> rr - i])
                   + Dot(rt, d)

(* run has returned a result for an input with prescribed branch points *)
C9_Witness ==
    /\ RunReturned
    /\ \E i \in 1..Len(branch) : branch[i] > 0
    /\ \E t \in Recorded : t[2] > 0 /\ \E j \in 1..Len(t[3]) : t[3][j] > 0

(* the candidates of run: multiples of lcm_ from max(lcm_, 2) to limit *)
Candidates(limit) == {rr \in Max(lcm_, 2)..limit : rr % lcm_ = 0}

(* the triples that qualify for r: 0 <= h <= floor(h_num / h_den), ret one *)
(* of all_discrepancies(discrepancies(r), h_num - h_den*h), ac_check true  *)
Qualifying(rr) ==
    LET hn == (2 - N) * rr + cp
        hd == 2 * rr
    IN UNION { { <<rr, hh, rt>> :
                   rt \in {x \in SeqRange(all_discrepancies(discrepancies(rr),
                                                            hn - hd * hh, 0)) :
                              ac_check(rr, branch, discrepancies(rr), x)} } :
               hh \in 0..(hn \div hd) }

(* C2: run records ret under results[r][h] if and only if r is a multiple of *)
(* lcm_ with max(lcm_, 2) <= r <= upper_limit, 0 <= h <= floor(h_num/h_den), *)
(* ret is one of all_discrepancies(discrepancies(r), h_num - h_den*h) and    *)
(* ac_check(r, branch, discrepancies(r), ret) is true; run(2, []) contains   *)
(* r = 5 with at least one entry.                                            *)
C2_RecordedIffQualifying ==
    RunReturned =>
        /\ Recorded = UNION {Qualifying(rr) : rr \in Candidates(upper_limit)}
        /\ \A rr \in DOMAIN results : \A hh \in DOMAIN results[rr] :
               Len(results[rr][hh][2]) > 0
        /\ (genus = 2 /\ branch = <<>>) => \E t \in Recorded : t[1] = 5

(* run has returned with results for several r and a discarded combination *)
C2_Witness ==
    /\ RunReturned
    /\ Cardinality(DOMAIN results) >= 2
    /\ \E rr \in Candidates(upper_limit) : rr \notin DOMAIN results

(* all_discrepancies(disc, Q) has returned rets *)
AdReturned == entry = "all_discrepancies" /\ pc = "done"

(* every sequence c of len(disc) non-negative integers with sum c[j]*disc[j] == Q *)
Solutions(d, q) == {cc \in [1..Len(d) -> 0..q] : Dot(cc, d) = q}

(* x comes before y in descending lexicographic order *)
LexGreater(x, y) ==
    \E j \in 1..Len(x) : x[j] > y[j] /\ \A i \in 1..(j - 1) : x[i] = y[i]

(* C3: for every list disc of positive integers and every Q >= 0,          *)
(* all_discrepancies(disc, Q) contains each sequence c of non-negative     *)
(* integers with len(c) == len(disc) and sum(c[j]*disc[j]) == Q exactly    *)
(* once and nothing else, in descending lexicographic order; e.g.          *)
(* ([2,3], 6) gives [[3,0],[0,2]], ([3,4,5], 0) gives [[0,0,0]], an empty  *)
(* disc gives [[]] for Q == 0 and [] otherwise.                            *)
C3_AllSolutionsOnceDescending ==
    AdReturned =>
        /\ SeqRange(rets) = Solutions(disc, Q)
        /\ \A m \in 1..Len(rets) : \A n \in 1..Len(rets) :
               rets[m] = rets[n] => m = n
        /\ \A m \in 1..(Len(rets) - 1) : LexGreater(rets[m], rets[m + 1])
        /\ (disc = <<2, 3>> /\ Q = 6) => rets = << <<3, 0>>, <<0, 2>> >>
        /\ (disc = <<3, 4, 5>> /\ Q = 0) => rets = << <<0, 0, 0>> >>
        /\ (disc = <<>> /\ Q = 0) => rets = << <<>> >>
        /\ (disc = <<>> /\ Q # 0) => rets = <<>>

(* all_discrepancies has returned several combinations of a two-entry list *)
C3_Witness ==
    /\ AdReturned
    /\ Len(disc) >= 2 /\ disc[1] # disc[2]
    /\ Len(rets) >= 3

----------------------------------------------------------------------------
(* ac_check has built and sorted a *)
AcBuilt == entry = "ac_check" /\ pc \in {"_ac_check", "done"}

(* ac_check(r, branch, disc, ret) has returned ok *)
AcReturned == entry = "ac_check" /\ pc = "done"

(* gcd(n, m) == 1, by the definition of a common divisor *)
Coprime(n, m) == \A dd \in 2..n : ~(n % dd = 0 /\ m % dd = 0)

(* the exponents allowed for a stabilizer index ak *)
Exponents(ak) == {n \in 1..(ak - 1) : Coprime(n, ak)}

(* the values of sum over k in from..upto of n_k * r / a_k, over all      *)
(* choices of exponents n_k allowed for a_k                               *)
RECURSIVE Totals(_, _)
Totals(from, upto) ==
    IF upto < from THEN {0}
    ELSE {t + (n * r) \div a[upto] :
             t \in Totals(from, upto - 1), n \in Exponents(a[upto])}

(* the number of entries of s equal to v *)
Count(s, v) == Cardinality({j \in 1..Len(s) : s[j] = v})

IsSortedDesc(s) == \A j \in 1..(Len(s) - 1) : s[j] >= s[j + 1]

(* C4: with a sorted descending, the check returns true if and only if     *)
(* there are exponents n_k for every entry from the second onward, with    *)
(* 1 <= n_k < a_k and gcd(n_k, a_k) == 1, such that                        *)
(* r/a_0 + sum over k >= 1 of n_k * r / a_k is congruent to 0 modulo r;    *)
(* with an empty multiset it returns true.                                 *)
C4_TrueIffExponentsExist ==
    AcReturned =>
        /\ IsSortedDesc(a)
        /\ a = <<>> => ok
        /\ a # <<>> =>
              (ok <=> \E t \in Totals(2, Len(a)) : (r \div a[1] + t) % r = 0)

(* ac_check has returned false for a list of three or more entries, and   *)
(* true for one                                                           *)
C4_Witness ==
    /\ AcReturned /\ Len(a) >= 3 /\ ~ok /\ a[1] > a[Len(a)]

(* C8: for a descending-sorted list a of divisors of r that are each >= 2, *)
(* _ac_check(r, a) returns true if and only if there are n_k for every     *)
(* entry including the first, with 1 <= n_k < a_k and gcd(n_k, a_k) == 1,  *)
(* such that sum over all k of n_k * r / a_k is congruent to 0 modulo r.   *)
C8_FirstExponentFixedLosesNothing ==
    (AcReturned /\ \A j \in 1..Len(a) : a[j] >= 2 /\ r % a[j] = 0) =>
        (ok <=> \E t \in Totals(1, Len(a)) : t % r = 0)

(* _ac_check has returned true for a list whose first entry admits an     *)
(* exponent other than 1                                                  *)
C8_Witness ==
    /\ AcReturned /\ ok
    /\ Len(a) >= 2 /\ a[1] >= 3
    /\ \A j \in 1..Len(a) : a[j] >= 2 /\ r % a[j] = 0

(* the entries equal to v that the prescribed branch points put into a *)
FromBr(v) ==
    Dot(branch, [i \in 1..Len(branch) |-> IF i # r /\ r \div i = v THEN 1 ELSE 0])

(* C7 as amended: no additional branch point is excluded; a contains       *)
(* ret[idx] copies of r/(r - disc[idx]) for every idx, also when that      *)
(* stabilizer index equals r.                                              *)
C7_EveryAdditionalPointKept ==
    AcBuilt =>
        \A v \in 1..r :
            Count(a, v) = FromBr(v)
                + Dot(ret, [j \in 1..Len(ret) |->
                               IF r \div (r - disc[j]) = v THEN 1 ELSE 0])

(* C7 as stated: an additional branch point whose stabilizer index         *)
(* r/(r - disc[idx]) equals r is excluded from a; a contains ret[idx]      *)
(* copies of r/(r - disc[idx]) for every other idx.                        *)
C7_AsStated ==
    AcBuilt =>
        \A v \in 1..r :
            Count(a, v) = FromBr(v)
                + Dot(ret, [j \in 1..Len(ret) |->
                               IF r \div (r - disc[j]) = v /\ v # r
                               THEN 1 ELSE 0])

(* a holds the entries of additional branch points with stabilizer index r *)
C7_Witness ==
    /\ AcBuilt
    /\ Len(ret) >= 2 /\ ret[Len(ret)] = 2 /\ ret[1] = 1
    /\ r \div (r - disc[Len(ret)]) = r
    /\ Count(a, r) >= 2

----------------------------------------------------------------------------
(* C5: run terminates for every genus g >= 0 and every branch of          *)
(* non-negative integers: the loop over r, the loop over h, the recursion *)
(* of all_discrepancies and the recursion of _ac_check each reach their   *)
(* end after finitely many steps.                                         *)
C5_Terminates == <>(pc = "done")

(* run has gone round both loops and has returned *)
C5_Witness ==
    /\ RunReturned /\ pc = "done"
    /\ Cardinality(DOMAIN results) >= 2
    /\ \E rr \in DOMAIN results : Cardinality(DOMAIN results[rr]) >= 2

(* main was given a negative genus or a negative branch count *)
InvalidInput ==
    entry = "main" /\ (genus < 0 \/ \E i \in 1..Len(branch) : branch[i] < 0)

(* C6: when main is given a negative genus or any negative branch count,   *)
(* the failure is reported by printing the usage text and the program      *)
(* exits without computing: run is never called and no report is printed.  *)
C6_InvalidInputPrintsUsage ==
    (InvalidInput /\ pc = "done") =>
        /\ out = <<"usage">>
        /\ lcm_ = 0 /\ results = EmptyDict

(* C10: the extra upper bounds on r only prune candidates that could not   *)
(* produce a result: every multiple r of lcm_ with                         *)
(* max(lcm_, 2) <= r <= 2*(2*g+1) that exceeds upper_limit has no h and    *)
(* ret that qualify, so run returns what it would with Wiman's bound alone.*)
C10_BoundsOnlyPrune ==
    RunReturned =>
        /\ \A rr \in Candidates(wiman(genus)) :
               rr > upper_limit => Qualifying(rr) = {}
        /\ Recorded = UNION {Qualifying(rr) : rr \in Candidates(wiman(genus))}

====
